---------------------------- MODULE Spec2Model ----------------------------
(***************************************************************************)
(* Model of the MEINRAG retrieval backend: the chunk store backends        *)
(* (app/vectorstore), the query router and chain construction              *)
(* (app/routers/query.py, app/rag/chain.py) and the chat session memory    *)
(* (app/rag/memory.py, app/db/repositories.py).                            *)
(***************************************************************************)
EXTENDS Integers, Sequences, FiniteSets, TLC

(***************************************************************************)
(* Bounds of the model.                                                    *)
(***************************************************************************)
MaxStoreChunks == 3
MaxBatch == 2
MaxK == 2
MaxMessages == 3
MaxExchanges == 3
MaxTime == 3

DocIds == {"d1", "d2"}
Users == {"u1", "u2"}
Collections == {"c1", "c2"}
SessionIds == {"s1", "s2"}
Tasks == {"t1", "t2"}
Impls == {"memory", "repo"}
Contents == {0, 1}
Queries == {0, 1}
Backends == {"faiss", "chroma"}

(***************************************************************************)
(* State.                                                                  *)
(***************************************************************************)
VARIABLES
    backend,    \* which VectorStoreManager the factory built
    store,      \* the chunks of the index, in index order (<<>>: FAISS _store is None)
    found,      \* the store call just made: its arguments, the store before it, its result
    settings,   \* the Settings the application runs with
    registry,   \* the documents table: one record per registered document
    resp,       \* the query request being answered and its response
    impl,           \* the session store in use: SessionMemoryManager or ChatSessionRepository
    max_messages,   \* its max_messages
    session_ttl,    \* its session_ttl, in seconds
    now,            \* the clock, in seconds
    sessions,       \* SessionMemoryManager._sessions: session id -> messages
    last_access,    \* _last_access / chat_sessions.last_access: session id -> time
    chat_messages,  \* the rows of the chat_messages table
    nex,            \* the number of the next exchange (its question and answer)
    hist,           \* the get_history call just made and what it returned
    log,            \* history variable: every message appended to a session, in order
    seen,           \* history variable: when each session was last accessed
    fresh,          \* history variable: first exchange since the session last sat idle too long
    tasks,          \* the concurrent callers of the session store: position and locals
    lock,           \* SessionMemoryManager._lock: "free" or the task holding it
    uploads,        \* history variable: what the upload that made each doc_id told its caller
    authors,        \* history variable: the user whose query stored each exchange
    disk            \* the chunks of the index files in the FAISS persist directory

storeVars == <<backend, store>>
apiVars == <<settings, registry, resp>>
memVars == <<impl, max_messages, session_ttl, now, sessions, last_access,
             chat_messages, nex, hist, log, seen, fresh>>
concVars == <<tasks, lock>>
auxVars == <<uploads, authors, disk>>
vars == <<backend, store, found, settings, registry, resp, impl, max_messages,
          session_ttl, now, sessions, last_access, chat_messages, nex, hist,
          log, seen, fresh, tasks, lock, uploads, authors, disk>>

(***************************************************************************)
(* Optional doc_ids arguments: Python's list[str] | None.                  *)
(***************************************************************************)
None == [given |-> FALSE, ids |-> {}]
Some(S) == [given |-> TRUE, ids |-> S]
OptIds == {None} \cup {Some(S) : S \in SUBSET DocIds}
\* Python truthiness of `doc_ids`: None and the empty list are both false.
Truthy(doc_ids) == doc_ids.given /\ doc_ids.ids # {}

Min(a, b) == IF a < b THEN a ELSE b
Take(s, k) == SubSeq(s, 1, Min(k, Len(s)))

(***************************************************************************)
(* The nearest-neighbour oracle of the index: distance of a chunk to the   *)
(* query, ties in index order.                                             *)
(***************************************************************************)
Dist(q, c) == IF q < c THEN c - q ELSE q - c

RankOf(s, q, i) ==
    Cardinality({j \in 1..Len(s) :
        \/ Dist(q, s[j].content) < Dist(q, s[i].content)
        \/ Dist(q, s[j].content) = Dist(q, s[i].content) /\ j < i})

SortByDistance(s, q) ==
    [n \in 1..Len(s) |-> s[CHOOSE i \in 1..Len(s) : RankOf(s, q, i) = n - 1]]

\* langchain's VectorStore.similarity_search(query, k): the k nearest chunks.
IndexSearch(s, q, k) == Take(SortByDistance(s, q), k)

\* [d for d in chunks if d.metadata.get("doc_id") in doc_ids]
FilterByDocs(s, ids) ==
    LET keep(d) == d.doc_id \in ids IN SelectSeq(s, keep)

(***************************************************************************)
(* FAISSStoreManager.                                                      *)
(***************************************************************************)
faiss_similarity_search(s, q, k) ==
    IF s = <<>> THEN <<>> ELSE IndexSearch(s, q, k)

\* A filter that lets every candidate through.
faiss_post_filter_none(candidates, doc_ids) == candidates

faiss_post_filter(candidates, doc_ids) ==
    IF Truthy(doc_ids)
    THEN FilterByDocs(candidates, doc_ids.ids)
    ELSE candidates

faiss_similarity_search_with_filter(s, q, k, doc_ids) ==
    IF s = <<>> THEN <<>>
    ELSE Take(faiss_post_filter(IndexSearch(s, q, k * 5), doc_ids), k)

(***************************************************************************)
(* ChromaStoreManager.                                                     *)
(***************************************************************************)
chroma_similarity_search(s, q, k) == IndexSearch(s, q, k)

\* The `where` clause built from doc_ids (no caller passes `collection`).
chroma_where(s, doc_ids) ==
    IF Truthy(doc_ids) THEN FilterByDocs(s, doc_ids.ids) ELSE s

chroma_similarity_search_with_filter(s, q, k, doc_ids) ==
    IndexSearch(chroma_where(s, doc_ids), q, k)

(***************************************************************************)
(* VectorStoreManager: dispatch on the configured backend.                 *)
(***************************************************************************)
similarity_search(b, s, q, k) ==
    IF b = "faiss" THEN faiss_similarity_search(s, q, k)
    ELSE chroma_similarity_search(s, q, k)

similarity_search_with_filter(b, s, q, k, doc_ids) ==
    IF b = "faiss" THEN faiss_similarity_search_with_filter(s, q, k, doc_ids)
    ELSE chroma_similarity_search_with_filter(s, q, k, doc_ids)

get_all_documents(b, s) == s

\* A tagging that leaves the chunks as they came.
TagNothing(chunks, doc_id) == chunks

\* add_documents tags every chunk with doc_id and appends it to the index.
Tag(chunks, doc_id) ==
    [i \in 1..Len(chunks) |-> [chunks[i] EXCEPT !.doc_id = doc_id]]

add_documents(s, chunks, doc_id) == s \o Tag(chunks, doc_id)

\* A delete that drops the whole index.
delete_everything(s, doc_id) == <<>>

\* delete_document: FAISS rebuilds without the chunks, Chroma deletes by id.
delete_document(s, doc_id) ==
    LET keep(d) == d.doc_id # doc_id IN SelectSeq(s, keep)

(***************************************************************************)
(* Chunks as the document processor hands them over.                       *)
(***************************************************************************)
NewChunk(i, c, csv) ==
    [doc_id |-> "", chunk_index |-> i - 1, content |-> c, collections_csv |-> csv]

Batches ==
    UNION {[1..n -> Contents] : n \in 1..MaxBatch}

MakeChunks(batch, csv) ==
    [i \in 1..Len(batch) |-> NewChunk(i, batch[i], csv)]

\* app/config.py defaults; user_isolation is read by the routers.
DefaultSettings ==
    [user_isolation |-> "none", hybrid_search_enabled |-> FALSE,
     rerank_enabled |-> FALSE, rerank_top_n |-> 4, hybrid_bm25_weight |-> 5]

NoResponse == [status |-> "idle"]

NoHistory == [done |-> FALSE]

\* A session store nobody has used: the defaults of app/config.py.
MemIdle ==
    /\ impl = "repo"
    /\ max_messages = 20
    /\ session_ttl = 3600
    /\ now = 0
    /\ sessions = [s \in {} |-> 0]
    /\ last_access = [s \in {} |-> 0]
    /\ chat_messages = {}
    /\ nex = 1
    /\ hist = NoHistory
    /\ log = [s \in SessionIds |-> <<>>]
    /\ seen = [s \in SessionIds |-> -1]
    /\ fresh = [s \in SessionIds |-> 0]

\* A caller that is not inside a call.
IdleTask == [pc |-> "idle"]
ConcIdle ==
    /\ tasks = [t \in Tasks |-> IdleTask]
    /\ lock = "free"
    /\ uploads = [d \in DocIds |-> "none"]
    /\ authors = <<>>
    /\ disk = <<>>

NoSearch ==
    [op |-> "none", q |-> 0, k |-> 0, doc_ids |-> None, result |-> <<>>, done |-> FALSE]

(***************************************************************************)
(* SpecStore: the chunk store driven directly through its interface.       *)
(***************************************************************************)
StoreInit ==
    /\ backend \in Backends
    /\ store = <<>>
    /\ found = NoSearch
    /\ settings = DefaultSettings
    /\ registry = {}
    /\ resp = NoResponse
    /\ MemIdle
    /\ ConcIdle

StoreAdd ==
    \E d \in DocIds, batch \in Batches :
        /\ Len(store) + Len(batch) <= MaxStoreChunks
        /\ store' = add_documents(store, MakeChunks(batch, {}), d)
        /\ found' = [op |-> "add", doc_id |-> d, n |-> Len(batch), before |-> store,
                     done |-> FALSE]
        /\ UNCHANGED <<backend, apiVars, memVars, concVars, auxVars>>

StoreDelete ==
    \E d \in DocIds :
        /\ store' = delete_document(store, d)
        /\ found' = [op |-> "delete", doc_id |-> d, before |-> store, done |-> FALSE]
        /\ UNCHANGED <<backend, apiVars, memVars, concVars, auxVars>>

StoreSearch ==
    \E q \in Queries, k \in 1..MaxK, ids \in OptIds :
        /\ found' = [op |-> "search", q |-> q, k |-> k, doc_ids |-> ids, done |-> TRUE,
                     result |-> similarity_search_with_filter(backend, store, q, k, ids)]
        /\ UNCHANGED <<backend, store, apiVars, memVars, concVars, auxVars>>

StoreNext == StoreAdd \/ StoreDelete \/ StoreSearch

SpecStore == StoreInit /\ [][StoreNext]_vars


(***************************************************************************)
(* app/rag/chain.py: the retrievers build_rag_chain composes.              *)
(***************************************************************************)
RECURSIVE SumSeq(_)
SumSeq(s) == IF s = <<>> THEN 0 ELSE s[1] + SumSeq(Tail(s))

\* The lexical (BM25) oracle: a chunk scores when it shares the query term.
LexScore(q, c) == IF q = c THEN 1 ELSE 0

\* rank_bm25 get_top_n: argsort of the scores, reversed.
LexRankOf(s, q, i) ==
    Cardinality({j \in 1..Len(s) :
        \/ LexScore(q, s[j].content) > LexScore(q, s[i].content)
        \/ LexScore(q, s[j].content) = LexScore(q, s[i].content) /\ j > i})

bm25_retriever(all_docs, q, k) ==
    Take([n \in 1..Len(all_docs) |->
            all_docs[CHOOSE i \in 1..Len(all_docs) : LexRankOf(all_docs, q, i) = n - 1]],
         k)

\* VectorStoreManager.as_retriever(search_kwargs={"k": k}) invoked on a query.
as_retriever(s, q, k) == IndexSearch(s, q, k)

\* FAISSStoreManager.as_retriever raises ValueError on an empty store.
as_retriever_raises(b, s) == b = "faiss" /\ s = <<>>

build_filtered_retriever(b, s, q, doc_ids, top_k) ==
    similarity_search_with_filter(b, s, q, top_k, doc_ids)

\* EnsembleRetriever.weighted_reciprocal_rank: weight / (rank + 60) summed per
\* page_content over both rankings, in fixed point (weights are tenths).
RrfTerms(list, weight, c) ==
    [r \in 1..Len(list) |->
        IF list[r].content = c THEN (weight * 1000000) \div (r + 60) ELSE 0]

RrfScore(lists, weights, c) ==
    SumSeq(RrfTerms(lists[1], weights[1], c)) + SumSeq(RrfTerms(lists[2], weights[2], c))

\* unique_by_key(all_docs, page_content): the first chunk of each content.
RECURSIVE UniqueByContent(_)
UniqueByContent(s) ==
    IF s = <<>> THEN <<>>
    ELSE LET r == UniqueByContent(SubSeq(s, 1, Len(s) - 1))
             last == s[Len(s)]
         IN  IF \E i \in 1..Len(r) : r[i].content = last.content
             THEN r ELSE Append(r, last)

\* sorted(..., reverse=True, key=rrf_score): descending and stable.
FusedRankOf(u, lists, weights, i) ==
    Cardinality({j \in 1..Len(u) :
        \/ RrfScore(lists, weights, u[j].content) > RrfScore(lists, weights, u[i].content)
        \/ RrfScore(lists, weights, u[j].content) = RrfScore(lists, weights, u[i].content)
           /\ j < i})

ensemble_invoke(lists, weights) ==
    LET u == UniqueByContent(lists[1] \o lists[2])
    IN  [n \in 1..Len(u) |-> u[CHOOSE i \in 1..Len(u) : FusedRankOf(u, lists, weights, i) = n - 1]]

hybrid_corpus(b, s, doc_ids) ==
    IF Truthy(doc_ids) THEN FilterByDocs(get_all_documents(b, s), doc_ids.ids)
    ELSE get_all_documents(b, s)

build_hybrid_retriever(b, s, q, top_k, bm25_weight, doc_ids) ==
    LET all_docs == hybrid_corpus(b, s, doc_ids)
        bm25 == bm25_retriever(all_docs, q, top_k)
        vector == IF Truthy(doc_ids)
                  THEN build_filtered_retriever(b, s, q, doc_ids, top_k)
                  ELSE as_retriever(s, q, top_k)
    IN  IF all_docs = <<>> THEN <<>>
        ELSE Take(ensemble_invoke(<<bm25, vector>>, <<bm25_weight, 10 - bm25_weight>>), top_k)

\* The answers a listwise re-ranker can give for n candidates: a ranking of
\* some of them, each named once.
Rankings(n) ==
    UNION {{p \in [1..m -> 1..n] : \A i, j \in 1..m : i # j => p[i] # p[j]} : m \in 0..n}

\* The candidates in the order the re-ranker's answer names them.
parse_ranking(candidates, ranking) ==
    [n \in 1..Len(ranking) |-> candidates[ranking[n]]]

\* _search of _build_reranked_retriever (lines 94-95): what the compression
\* retriever returned is returned as it is.
reranked_search(compressed) == compressed

\* A compressor that does not cut its output.
build_reranked_retriever_uncut(candidates, ranking, top_n) ==
    IF candidates = <<>> THEN <<>>
    ELSE reranked_search(parse_ranking(candidates, ranking))

\* LLMListwiseRerank.from_llm(llm, top_n=top_n) behind the compression
\* retriever: the ranked candidates, cut to top_n by compress_documents.
build_reranked_retriever(candidates, ranking, top_n) ==
    IF candidates = <<>> THEN <<>>
    ELSE reranked_search(Take(parse_ranking(candidates, ranking), top_n))

fetch_k(st, top_k) == IF st.rerank_enabled THEN top_k * 3 ELSE top_k

\* build_rag_chain raises ValueError (FAISS as_retriever on an empty store).
build_rag_chain_raises(b, s, st, doc_ids) ==
    /\ ~st.hybrid_search_enabled
    /\ ~Truthy(doc_ids)
    /\ as_retriever_raises(b, s)

base_retriever(b, s, st, q, top_k, doc_ids) ==
    IF st.hybrid_search_enabled
    THEN build_hybrid_retriever(b, s, q, fetch_k(st, top_k), st.hybrid_bm25_weight, doc_ids)
    ELSE IF Truthy(doc_ids)
    THEN build_filtered_retriever(b, s, q, doc_ids, fetch_k(st, top_k))
    ELSE as_retriever(s, q, fetch_k(st, top_k))

\* The retriever build_rag_chain returns, invoked on the question: every
\* list it can yield (one per answer of the re-ranker, one if there is none).
chain_retriever(b, s, st, q, top_k, doc_ids) ==
    LET candidates == base_retriever(b, s, st, q, top_k, doc_ids)
    IN  IF st.rerank_enabled
        THEN {build_reranked_retriever(candidates, ranking, st.rerank_top_n) :
                 ranking \in Rankings(Len(candidates))}
        ELSE {candidates}

(***************************************************************************)
(* DocumentRepository reads (app/db/repositories.py).                      *)
(***************************************************************************)
\* list_all(user_id): `if user_id:` restricts to the user's documents.
list_all(reg, user_id) ==
    IF user_id # "" THEN {d \in reg : d.user_id = user_id} ELSE reg

list_by_collection(reg, collection, user_id) ==
    {d \in list_all(reg, user_id) : collection \in d.collections}

registry_get(reg, doc_id) == {d \in reg : d.doc_id = doc_id}

IdsOf(docs) == {d.doc_id : d \in docs}

Isolated(st) == st.user_isolation \in {"all", "documents"}

(***************************************************************************)
(* app/routers/query.py: query_documents.                                  *)
(***************************************************************************)
\* Lines 48-68: the doc_ids the retrieval is restricted to.
resolve_doc_ids(st, reg, current_user, req_doc_ids, collection) ==
    LET user_doc_ids == IdsOf(list_all(reg, current_user))
    IN  IF Isolated(st)
        THEN IF collection # ""
             THEN LET collection_doc_ids ==
                          IdsOf(list_by_collection(reg, collection, current_user))
                  IN  IF Truthy(req_doc_ids)
                      THEN Some(req_doc_ids.ids \cap collection_doc_ids \cap user_doc_ids)
                      ELSE Some(collection_doc_ids)
             ELSE IF Truthy(req_doc_ids)
             THEN Some(req_doc_ids.ids \cap user_doc_ids)
             ELSE IF user_doc_ids # {} THEN Some(user_doc_ids) ELSE None
        ELSE IF collection # ""
        THEN Some(IdsOf(list_by_collection(reg, collection, "")))
        ELSE req_doc_ids

\* Sources that ignore top_k.
response_sources_unbounded(b, s, q, top_k, doc_ids) == s

\* Lines 89-96: the chunks listed as the response's sources.
response_sources(b, s, q, top_k, doc_ids) ==
    IF Truthy(doc_ids)
    THEN similarity_search_with_filter(b, s, q, top_k, doc_ids)
    ELSE similarity_search(b, s, q, top_k)

\* The responses query_documents can give (the request has no session_id).
query_documents(b, s, st, reg, current_user, q, top_k, req_doc_ids, collection) ==
    LET doc_ids == resolve_doc_ids(st, reg, current_user, req_doc_ids, collection)
        request == [user |-> current_user, top_k |-> top_k, collection |-> collection,
                    req_doc_ids |-> req_doc_ids, doc_ids |-> doc_ids]
        sources == response_sources(b, s, q, top_k, doc_ids)
    IN  IF build_rag_chain_raises(b, s, st, doc_ids)
        THEN {[status |-> "400", request |-> request, context |-> <<>>, sources |-> <<>>]}
        ELSE {[status |-> "200", request |-> request, context |-> c, sources |-> sources] :
                 c \in chain_retriever(b, s, st, q, top_k, doc_ids)}
             \cup {[status |-> "500", request |-> request, context |-> <<>>,
                    sources |-> <<>>]}

(***************************************************************************)
(* app/routers/documents.py: upload_document and delete_document.          *)
(***************************************************************************)
\* The files users upload, as the chunk contents the processor splits them into.
Files == {<<0>>, <<1, 0>>}

\* _get_user_filter: the user to filter by, if isolation is on.
get_user_filter(st, user_id) == IF Isolated(st) THEN user_id ELSE ""

\* Lines 68-76: the same bytes are already registered (for this user).
is_duplicate(st, reg, current_user, file) ==
    \E d \in list_all(reg, get_user_filter(st, current_user)) : d.file_hash = file

\* Lines 102-103: default to ["other"] if nothing specified.
parsed_collections(collections) ==
    IF collections = {} THEN {"other"} ELSE collections

\* A label may contain the delimiter of collections_csv.
Labels == Collections \cup {"c1|c2"}

\* The labels a pipe-delimited string names, for the string of one label.
PipeParts(label) == IF label = "c1|c2" THEN {"c1", "c2"} ELSE {label}

\* "|".join(collections), as the labels the string names when split again.
collections_csv(collections) == UNION {PipeParts(l) : l \in collections}

\* The `collections` parameter of the uploads: none given, or one label.
UploadCollections == {{}, {"c1"}}

SettingsChoices ==
    [user_isolation : {"all", "none"}, hybrid_search_enabled : BOOLEAN,
     rerank_enabled : BOOLEAN, rerank_top_n : {1}, hybrid_bm25_weight : {5}]

Init ==
    /\ backend \in Backends
    /\ store = <<>>
    /\ found = NoSearch
    /\ settings \in SettingsChoices
    /\ registry = {}
    /\ resp = NoResponse
    /\ MemIdle
    /\ ConcIdle

\* A successful upload: the chunks are indexed, then the document is registered.
Upload ==
    \E u \in Users, file \in Files, cs \in UploadCollections,
       doc_id \in DocIds :
        /\ resp.status = "idle"
        /\ doc_id \notin IdsOf(registry)
        /\ \A i \in 1..Len(store) : store[i].doc_id # doc_id
        /\ ~is_duplicate(settings, registry, u, file)
        /\ store' = add_documents(store,
                        MakeChunks(file, collections_csv(parsed_collections(cs))), doc_id)
        /\ registry' = registry \cup
               {[doc_id |-> doc_id, user_id |-> u, chunk_count |-> Len(file),
                 collections |-> parsed_collections(cs), file_hash |-> file]}
        /\ UNCHANGED <<backend, found, settings, resp, memVars, concVars, auxVars>>

\* delete_document: the chunks are dropped, then the registry record.
Delete ==
    \E doc_id \in DocIds :
        /\ resp.status = "idle"
        /\ registry_get(registry, doc_id) # {}
        /\ store' = delete_document(store, doc_id)
        /\ registry' = registry \ registry_get(registry, doc_id)
        /\ UNCHANGED <<backend, found, settings, resp, memVars, concVars, auxVars>>

Query ==
    \E u \in Users, q \in Queries, top_k \in 1..MaxK, ids \in OptIds,
       collection \in {""} \cup Collections :
        /\ resp.status = "idle"
        /\ resp' \in query_documents(backend, store, settings, registry, u, q, top_k,
                                     ids, collection)
        /\ UNCHANGED <<backend, store, found, settings, registry, memVars, concVars, auxVars>>

\* The response is sent and the request is over.
QueryReturn ==
    /\ resp.status # "idle"
    /\ resp' = NoResponse
    /\ UNCHANGED <<backend, store, found, settings, registry, memVars, concVars, auxVars>>

Next == Upload \/ Delete \/ Query \/ QueryReturn

Spec == Init /\ [][Next]_vars

(***************************************************************************)
(* Session memory: app/rag/memory.py (SessionMemoryManager) and            *)
(* app/db/repositories.py (ChatSessionRepository).                         *)
(***************************************************************************)
HumanMessage(n) == [role |-> "human", content |-> n]
AIMessage(n) == [role |-> "ai", content |-> n]

EmptyMap == [s \in {} |-> 0]
Drop(f, X) == [s \in DOMAIN f \ X |-> f[s]]
Put(f, k, v) == [s \in DOMAIN f \cup {k} |-> IF s = k THEN v ELSE f[s]]

\* _cleanup_expired: the sessions idle for longer than session_ttl.
Expired(la, t, ttl) == {s \in DOMAIN la : t - la[s] > ttl}

\* Python's lst[-m:] (lst[-0:] is the whole list).
PySuffix(s, m) ==
    IF m = 0 \/ m >= Len(s) THEN s ELSE SubSeq(s, Len(s) - m + 1, Len(s))

\* memory.py lines 35-38: trim to max_messages.
memory_trim(s, m) == IF Len(s) > m THEN PySuffix(s, m) ELSE s

\* add_exchange that keeps one message list for all sessions.
memory_add_exchange_shared(ss, sid, n, m) ==
    [s \in DOMAIN ss \cup {sid} |->
        memory_trim((IF sid \in DOMAIN ss THEN ss[sid] ELSE <<>>)
                        \o <<HumanMessage(n), AIMessage(n)>>, m)]

\* memory.py lines 29-38: the session's list after the exchange is stored.
memory_add_exchange(ss, sid, n, m) ==
    LET old == IF sid \in DOMAIN ss THEN ss[sid] ELSE <<>>
    IN  Put(ss, sid, memory_trim(old \o <<HumanMessage(n), AIMessage(n)>>, m))

\* The two rows add_exchange inserts: the same created_at on both.
ExchangeRows(sid, n, created_at) ==
    {[id |-> 2 * n - 1, session_id |-> sid, role |-> "human", content |-> n,
      created_at |-> created_at],
     [id |-> 2 * n, session_id |-> sid, role |-> "ai", content |-> n,
      created_at |-> created_at]}

RowsOf(rows, sid) == {r \in rows : r.session_id = sid}

\* ORDER BY created_at: every order of the rows that created_at allows
\* (rows with equal created_at come in any order).
OrderByCreatedAt(R) ==
    {s \in [1..Cardinality(R) -> R] :
        /\ \A i, j \in 1..Cardinality(R) : i # j => s[i] # s[j]
        /\ \A i, j \in 1..Cardinality(R) : i < j => s[i].created_at <= s[j].created_at}

\* repositories.py lines 222-226: rows to HumanMessage / AIMessage.
ToMessages(s) ==
    [i \in 1..Len(s) |->
        IF s[i].role = "human" THEN HumanMessage(s[i].content)
        ELSE AIMessage(s[i].content)]

\* repositories.py lines 262-268: ORDER BY created_at LIMIT c, every choice.
OldestRows(R, c) ==
    {D \in SUBSET R :
        /\ Cardinality(D) = c
        /\ \A d \in D, r \in R \ D : d.created_at <= r.created_at}

\* repositories.py lines 253-275: the tables the trim can leave.
repo_trim(rows, sid, m) ==
    LET total == Cardinality(RowsOf(rows, sid))
    IN  IF total > m
        THEN {rows \ D : D \in OldestRows(RowsOf(rows, sid), total - m)}
        ELSE {rows}

\* _cleanup_expired of the repository: ON DELETE CASCADE drops the messages.
repo_cleanup_rows(rows, la, t, ttl) ==
    {r \in rows : r.session_id \notin Expired(la, t, ttl)}

\* What is stored for a session, as a set of messages.
StoredMessages(sid) ==
    IF impl = "memory"
    THEN IF sid \in DOMAIN sessions
         THEN {sessions[sid][i] : i \in 1..Len(sessions[sid])} ELSE {}
    ELSE {[role |-> r.role, content |-> r.content] : r \in RowsOf(chat_messages, sid)}

StoredCount(sid) ==
    IF impl = "memory"
    THEN IF sid \in DOMAIN sessions THEN Len(sessions[sid]) ELSE 0
    ELSE Cardinality(RowsOf(chat_messages, sid))

\* Seconds since the session was last accessed (-1: it has no session).
Gap(sid) == IF seen[sid] < 0 THEN -1 ELSE now - seen[sid]

Ttls == {1, 2}

MemInit ==
    /\ backend = "chroma"
    /\ store = <<>>
    /\ found = NoSearch
    /\ settings = DefaultSettings
    /\ registry = {}
    /\ resp = NoResponse
    /\ impl \in Impls
    /\ max_messages \in 0..MaxMessages
    /\ session_ttl \in Ttls
    /\ now = 0
    /\ sessions = EmptyMap
    /\ last_access = EmptyMap
    /\ chat_messages = {}
    /\ nex = 1
    /\ hist = NoHistory
    /\ log = [s \in SessionIds |-> <<>>]
    /\ seen = [s \in SessionIds |-> -1]
    /\ fresh = [s \in SessionIds |-> 0]
    /\ ConcIdle

MemTick ==
    /\ now < MaxTime
    /\ now' = now + 1
    /\ hist' = NoHistory
    /\ UNCHANGED <<impl, max_messages, session_ttl, sessions, last_access,
                   chat_messages, nex, log, seen, fresh>>
    /\ UNCHANGED <<backend, store, found, apiVars, concVars, auxVars>>

\* get_history that sweeps but does not touch the session.
get_history_no_touch(la, sid, t, ttl) == Drop(la, Expired(la, t, ttl))

\* get_history on the last_access map: sweep, then touch the session if it is there.
get_history_last_access(la, sid, t, ttl) ==
    LET swept == Drop(la, Expired(la, t, ttl))
    IN  IF sid \in DOMAIN swept THEN Put(swept, sid, t) ELSE swept

\* get_history(session_id), of either implementation, run without interruption.
get_history(sid) ==
    LET expired == Expired(last_access, now, session_ttl)
        present == sid \in DOMAIN last_access \ expired
        rows == repo_cleanup_rows(chat_messages, last_access, now, session_ttl)
    IN  /\ last_access' = get_history_last_access(last_access, sid, now, session_ttl)
        /\ IF impl = "memory"
           THEN /\ sessions' = Drop(sessions, expired)
                /\ chat_messages' = chat_messages
                /\ hist' = [done |-> TRUE, sid |-> sid, gap |-> Gap(sid),
                            before |-> StoredMessages(sid),
                            messages |-> IF present THEN sessions[sid] ELSE <<>>]
           ELSE /\ sessions' = sessions
                /\ chat_messages' = rows
                /\ \E order \in OrderByCreatedAt(RowsOf(rows, sid)) :
                      hist' = [done |-> TRUE, sid |-> sid, gap |-> Gap(sid),
                               before |-> StoredMessages(sid),
                               messages |-> IF present THEN ToMessages(order)
                                            ELSE <<>>]
        /\ seen' = [seen EXCEPT ![sid] = IF present THEN now ELSE -1]
        /\ fresh' = [fresh EXCEPT ![sid] =
                        IF Gap(sid) > session_ttl THEN nex ELSE @]
        /\ UNCHANGED <<impl, max_messages, session_ttl, now, nex, log>>
        /\ UNCHANGED <<backend, store, found, apiVars>>

\* add_exchange(session_id, question, answer), of either implementation, run
\* without interruption; exchange number nex is made at an instant of its
\* own, later than those of the earlier exchanges.
add_exchange(sid) ==
    /\ last_access' = Put(last_access, sid, now)
    /\ IF impl = "memory"
       THEN /\ sessions' = memory_add_exchange(sessions, sid, nex, max_messages)
            /\ chat_messages' = chat_messages
       ELSE /\ sessions' = sessions
            /\ chat_messages' \in
                  repo_trim(chat_messages \cup ExchangeRows(sid, nex, nex), sid,
                            max_messages)
    /\ nex' = nex + 1
    /\ hist' = NoHistory
    /\ log' = [log EXCEPT ![sid] = @ \o <<HumanMessage(nex), AIMessage(nex)>>]
    /\ seen' = [seen EXCEPT ![sid] = now]
    /\ fresh' = [fresh EXCEPT ![sid] =
                    IF Gap(sid) > session_ttl THEN nex ELSE @]
    /\ UNCHANGED <<impl, max_messages, session_ttl, now>>
    /\ UNCHANGED <<backend, store, found, apiVars>>

MemGetHistory ==
    \E sid \in SessionIds : get_history(sid) /\ UNCHANGED <<concVars, auxVars>>

MemAddExchange ==
    \E sid \in SessionIds :
        /\ nex <= MaxExchanges
        /\ add_exchange(sid)
        /\ UNCHANGED <<concVars, auxVars>>

MemNext == MemTick \/ MemGetHistory \/ MemAddExchange

SpecMem == MemInit /\ [][MemNext]_vars

(***************************************************************************)
(* SessionMemoryManager called from concurrent threads: every method body  *)
(* runs inside `with self._lock:` (memory.py lines 15, 19, 28).            *)
(***************************************************************************)
Ops == {"get_history", "add_exchange"}

\* A lock that an early return leaves held.
lock_on_exit_leak(t, early) == IF early THEN t ELSE "free"

\* Leaving the `with self._lock:` block, by falling off its end or by the
\* return of memory.py line 22, releases the lock.
lock_on_exit(t, early) == "free"

LockInit ==
    /\ backend = "chroma"
    /\ store = <<>>
    /\ found = NoSearch
    /\ settings = DefaultSettings
    /\ registry = {}
    /\ resp = NoResponse
    /\ impl = "memory"
    /\ max_messages \in {2}
    /\ session_ttl \in {1}
    /\ now = 0
    /\ sessions = EmptyMap
    /\ last_access = EmptyMap
    /\ chat_messages = {}
    /\ nex = 1
    /\ hist = NoHistory
    /\ log = [s \in SessionIds |-> <<>>]
    /\ seen = [s \in SessionIds |-> -1]
    /\ fresh = [s \in SessionIds |-> 0]
    /\ ConcIdle

\* A thread calls a method and reaches its `with self._lock:`.
LockCall(t) ==
    \E op \in Ops, sid \in SessionIds :
        /\ tasks[t].pc = "idle"
        /\ op = "add_exchange" => nex <= MaxExchanges
        /\ tasks' = [tasks EXCEPT ![t] = [pc |-> "wait", op |-> op, sid |-> sid]]
        /\ UNCHANGED <<lock, storeVars, found, apiVars, memVars, auxVars>>

\* threading.Lock.acquire: only when no thread holds the lock.
LockAcquire(t) ==
    /\ tasks[t].pc = "wait"
    /\ lock = "free"
    /\ lock' = t
    /\ tasks' = [tasks EXCEPT ![t].pc = "cs"]
    /\ UNCHANGED <<storeVars, found, apiVars, memVars, auxVars>>

\* memory.py lines 20-24, then the lock is released.
LockGetHistory(t) ==
    /\ tasks[t].pc = "cs"
    /\ tasks[t].op = "get_history"
    /\ get_history(tasks[t].sid)
    /\ lock' = lock_on_exit(t, tasks[t].sid \notin DOMAIN sessions')
    /\ tasks' = [tasks EXCEPT ![t] = IdleTask]
    /\ UNCHANGED auxVars

\* memory.py lines 29-40, then the lock is released.
LockAddExchange(t) ==
    /\ tasks[t].pc = "cs"
    /\ tasks[t].op = "add_exchange"
    /\ add_exchange(tasks[t].sid)
    /\ lock' = lock_on_exit(t, FALSE)
    /\ tasks' = [tasks EXCEPT ![t] = IdleTask]
    /\ UNCHANGED auxVars

LockTick ==
    /\ now < MaxTime
    /\ now' = now + 1
    /\ UNCHANGED <<impl, max_messages, session_ttl, sessions, last_access,
                   chat_messages, nex, hist, log, seen, fresh>>
    /\ UNCHANGED <<backend, store, found, apiVars, concVars, auxVars>>

LockNext ==
    \/ LockTick
    \/ \E t \in Tasks :
          LockCall(t) \/ LockAcquire(t) \/ LockGetHistory(t) \/ LockAddExchange(t)

SpecLock == LockInit /\ [][LockNext]_vars

(***************************************************************************)
(* ChatSessionRepository.add_exchange called by concurrent requests.  Each *)
(* request has its own AsyncSession (dependencies.py get_db), that is its  *)
(* own PostgreSQL transaction, READ COMMITTED: every statement sees the    *)
(* rows committed when it starts and the transaction's own writes; an      *)
(* INSERT or UPDATE of a chat_sessions row locks it until the transaction  *)
(* ends.  get_db commits when the handler returns and rolls back when it   *)
(* raises.                                                                 *)
(***************************************************************************)
TxnMaxMessages == {2, 4}

\* The chat_messages rows a statement of task t sees.
Visible(t) ==
    {r \in chat_messages \cup tasks[t].ins : r.id \notin tasks[t].del}

\* Another transaction holds the lock of the session's chat_sessions row.
RowLocked(t) ==
    \E u \in Tasks \ {t} :
        tasks[u].pc # "idle" /\ tasks[u].holds /\ tasks[u].sid = tasks[t].sid

TxnInit ==
    /\ backend = "chroma"
    /\ store = <<>>
    /\ found = NoSearch
    /\ settings = DefaultSettings
    /\ registry = {}
    /\ resp = NoResponse
    /\ impl = "repo"
    /\ max_messages \in TxnMaxMessages
    /\ session_ttl \in {1}
    /\ now = 0
    /\ sessions = EmptyMap
    /\ last_access = EmptyMap
    /\ chat_messages = {}
    /\ nex = 1
    /\ hist = NoHistory
    /\ log = [s \in SessionIds |-> <<>>]
    /\ seen = [s \in SessionIds |-> -1]
    /\ fresh = [s \in SessionIds |-> 0]
    /\ ConcIdle

TxnUnchanged ==
    UNCHANGED <<storeVars, found, apiVars, impl, max_messages, session_ttl,
                sessions, hist, seen, fresh, lock, auxVars>>

\* A request calls add_exchange(session_id, question, answer).
TxnBegin(t) ==
    \E sid \in SessionIds :
        /\ tasks[t].pc = "idle"
        /\ nex <= MaxExchanges
        /\ tasks' = [tasks EXCEPT ![t] =
                        [pc |-> "select", sid |-> sid, n |-> nex, created_at |-> 0,
                         holds |-> FALSE, ins |-> {}, ids |-> {}, del |-> {},
                         total |-> 0]]
        /\ nex' = nex + 1
        /\ log' = [log EXCEPT ![sid] = @ \o <<HumanMessage(nex), AIMessage(nex)>>]
        /\ UNCHANGED <<now, last_access, chat_messages>>
        /\ TxnUnchanged

\* repositories.py lines 231-236: is there a chat_sessions row?  If there is,
\* line 243 takes `now` and the flush of line 251 is issued.
TxnSelectSession(t) ==
    /\ tasks[t].pc = "select"
    /\ IF tasks[t].sid \in DOMAIN last_access
       THEN /\ tasks' = [tasks EXCEPT ![t].pc = "flush", ![t].created_at = now]
            /\ now' = now + 1
       ELSE /\ tasks' = [tasks EXCEPT ![t].pc = "insert"]
            /\ now' = now
    /\ UNCHANGED <<nex, log, last_access, chat_messages>>
    /\ TxnUnchanged

\* repositories.py lines 237-240: INSERT the chat_sessions row.  It waits for
\* a transaction that holds the same key, and raises IntegrityError when the
\* key is committed by then.
TxnInsertSession(t) ==
    /\ tasks[t].pc = "insert"
    /\ ~RowLocked(t)
    /\ IF tasks[t].sid \in DOMAIN last_access
       THEN /\ tasks' = [tasks EXCEPT ![t].pc = "failed"]
            /\ now' = now
       ELSE /\ tasks' = [tasks EXCEPT ![t].pc = "flush", ![t].holds = TRUE,
                                      ![t].created_at = now]
            /\ now' = now + 1
    /\ UNCHANGED <<nex, log, last_access, chat_messages>>
    /\ TxnUnchanged

\* repositories.py lines 243-251: UPDATE chat_sessions SET last_access (it
\* waits for the row lock) and INSERT the two chat_messages rows.
TxnFlushMessages(t) ==
    /\ tasks[t].pc = "flush"
    /\ ~RowLocked(t)
    /\ tasks' = [tasks EXCEPT ![t].pc = "count", ![t].holds = TRUE,
                              ![t].ins = ExchangeRows(tasks[t].sid, tasks[t].n,
                                                      tasks[t].created_at)]
    /\ UNCHANGED <<now, nex, log, last_access, chat_messages>>
    /\ TxnUnchanged

\* repositories.py lines 254-260: count the session's rows.
TxnCount(t) ==
    /\ tasks[t].pc = "count"
    /\ LET total == Cardinality(RowsOf(Visible(t), tasks[t].sid))
       IN  tasks' = [tasks EXCEPT ![t].total = total,
                                  ![t].pc = IF total > max_messages THEN "oldest"
                                            ELSE "commit"]
    /\ UNCHANGED <<now, nex, log, last_access, chat_messages>>
    /\ TxnUnchanged

\* repositories.py lines 262-269: the ids of the oldest rows.
TxnSelectOldest(t) ==
    /\ tasks[t].pc = "oldest"
    /\ LET R == RowsOf(Visible(t), tasks[t].sid)
       IN  \E D \in OldestRows(R, Min(tasks[t].total - max_messages, Cardinality(R))) :
              tasks' = [tasks EXCEPT ![t].ids = {r.id : r \in D},
                                     ![t].pc = IF D = {} THEN "commit" ELSE "delete"]
    /\ UNCHANGED <<now, nex, log, last_access, chat_messages>>
    /\ TxnUnchanged

\* repositories.py lines 270-275: DELETE ... WHERE id IN ids_to_delete; it
\* waits for a transaction that is deleting one of the rows.
TxnDelete(t) ==
    /\ tasks[t].pc = "delete"
    /\ \A u \in Tasks \ {t} :
          IF tasks[u].pc = "idle" THEN TRUE ELSE tasks[u].del \cap tasks[t].ids = {}
    /\ tasks' = [tasks EXCEPT ![t].del = tasks[t].ids, ![t].pc = "commit"]
    /\ UNCHANGED <<now, nex, log, last_access, chat_messages>>
    /\ TxnUnchanged

\* dependencies.py line 35: the handler returned, get_db commits.
TxnCommit(t) ==
    /\ tasks[t].pc = "commit"
    /\ chat_messages' = Visible(t)
    /\ last_access' = Put(last_access, tasks[t].sid, tasks[t].created_at)
    /\ tasks' = [tasks EXCEPT ![t] = IdleTask]
    /\ UNCHANGED <<now, nex, log>>
    /\ TxnUnchanged

\* query.py lines 120-122 and dependencies.py lines 36-38: the IntegrityError
\* becomes a 500 response and get_db rolls the transaction back.
TxnRollback(t) ==
    /\ tasks[t].pc = "failed"
    /\ tasks' = [tasks EXCEPT ![t] = IdleTask]
    /\ UNCHANGED <<now, nex, log, last_access, chat_messages>>
    /\ TxnUnchanged

TxnNext ==
    \E t \in Tasks :
        \/ TxnBegin(t)
        \/ TxnSelectSession(t)
        \/ TxnInsertSession(t)
        \/ TxnFlushMessages(t)
        \/ TxnCount(t)
        \/ TxnSelectOldest(t)
        \/ TxnDelete(t)
        \/ TxnCommit(t)
        \/ TxnRollback(t)

SpecTxn == TxnInit /\ [][TxnNext]_vars

(***************************************************************************)
(* app/routers/documents.py called by concurrent requests, each step of a  *)
(* handler on its own, any step that talks to the embedding service or the *)
(* database failing or not.  The chunk store is written at once; registry  *)
(* writes belong to the request's transaction, which get_db commits when   *)
(* the handler has returned and rolls back when it has raised.             *)
(***************************************************************************)
\* The collections of the PATCH requests (DocumentUpdateRequest: min_length 1).
UpdateCollections == {{"c2"}, {"c1|c2"}}

\* The PATCH requests tried: the new collections and the calling user.
UpdateRequests == {<<{"c2"}, "u1">>, <<{"c1|c2"}, "u2">>}

\* The uploads of the concurrent requests: user, file, `collections`.
DocUploads ==
    {<<"u1", <<1, 0>>, {"c1"}>>, <<"u1", <<0>>, {}>>, <<"u2", <<1, 0>>, {"c1"}>>}

\* ChromaStoreManager does not define update_document_metadata.
update_document_metadata_raises(b) == b = "chroma"

\* FAISSStoreManager.update_document_metadata: patch the document's chunks
\* and rebuild the index from all chunks.
update_document_metadata(s, doc_id, csv) ==
    [i \in 1..Len(s) |->
        IF s[i].doc_id = doc_id THEN [s[i] EXCEPT !.collections_csv = csv] ELSE s[i]]

\* Another request's transaction has written the documents row of doc_id.
DocRowLocked(t, doc_id) ==
    \E u \in Tasks \ {t} :
        /\ tasks[u].pc \in {"upd_store", "commit"}
        /\ tasks[u].op \in {"delete", "update"}
        /\ tasks[u].doc_id = doc_id

\* The registry once the transaction of a request is committed.
committed_registry(reg, task) ==
    CASE task.op = "upload" ->
            reg \cup {[doc_id |-> task.doc_id, user_id |-> task.user,
                       chunk_count |-> Len(task.file),
                       collections |-> parsed_collections(task.collections),
                       file_hash |-> task.file]}
      [] task.op = "delete" -> reg \ registry_get(reg, task.doc_id)
      [] task.op = "update" ->
            {IF d.doc_id = task.doc_id
             THEN [d EXCEPT !.collections = task.collections] ELSE d : d \in reg}

DocTask(pc, op, u, file, cs, doc_id, status) ==
    [pc |-> pc, op |-> op, user |-> u, file |-> file, collections |-> cs,
     doc_id |-> doc_id, status |-> status]

DocsInit ==
    /\ backend \in Backends
    /\ store = <<>>
    /\ found = NoSearch
    /\ settings \in {s \in SettingsChoices :
                        ~s.hybrid_search_enabled /\ ~s.rerank_enabled}
    /\ registry = {}
    /\ resp = NoResponse
    /\ MemIdle
    /\ ConcIdle

DocsUnchanged ==
    UNCHANGED <<backend, found, settings, resp, memVars, lock, authors, disk>>

\* documents.py lines 50-79: the checks of upload_document, then a new doc_id.
DocUploadCheck(t) ==
    \E up \in DocUploads :
      LET u == up[1]  file == up[2]  cs == up[3] IN
        /\ tasks[t].pc = "idle"
        /\ IF is_duplicate(settings, registry, u, file)
           THEN /\ tasks' = [tasks EXCEPT ![t] =
                                DocTask("return", "upload", "", <<>>, {}, "", "409")]
                /\ uploads' = uploads
           ELSE \E doc_id \in DocIds :
                   /\ uploads[doc_id] = "none"
                   /\ tasks' = [tasks EXCEPT ![t] =
                                   DocTask("index", "upload", u, file, cs, doc_id, "")]
                   /\ uploads' = [uploads EXCEPT ![doc_id] = "running"]
        /\ UNCHANGED <<store, registry>>
        /\ DocsUnchanged

\* documents.py lines 84-110: split, label and index the chunks; the
\* embedding call may fail (line 136: 500).
DocUploadIndex(t) ==
    /\ tasks[t].pc = "index"
    /\ \/ /\ store' = add_documents(store,
                         MakeChunks(tasks[t].file,
                             collections_csv(parsed_collections(tasks[t].collections))),
                         tasks[t].doc_id)
          /\ tasks' = [tasks EXCEPT ![t].pc = "register"]
       \/ /\ store' = store
          /\ tasks' = [tasks EXCEPT ![t].pc = "return", ![t].status = "500"]
    /\ UNCHANGED <<registry, uploads>>
    /\ DocsUnchanged

\* documents.py lines 113-139: registry.add, then the response; a failed
\* flush is caught and answered with 500.
DocUploadRegister(t) ==
    /\ tasks[t].pc = "register"
    /\ \/ tasks' = [tasks EXCEPT ![t].pc = "commit", ![t].status = "200"]
       \/ tasks' = [tasks EXCEPT ![t].pc = "return", ![t].status = "500"]
    /\ UNCHANGED <<store, registry, uploads>>
    /\ DocsUnchanged

\* documents.py lines 264-272: delete_document, called by current_user (the
\* handler does not depend on get_current_user), looks the document up (404
\* when it is not registered).
DocDeleteGet(t) ==
    \E doc_id \in DocIds, current_user \in Users :
        /\ tasks[t].pc = "idle"
        /\ tasks' = [tasks EXCEPT ![t] =
                        IF registry_get(registry, doc_id) = {}
                        THEN IdleTask
                        ELSE DocTask("del_store", "delete", current_user, <<>>, {},
                                     doc_id, "")]
        /\ UNCHANGED <<store, registry, uploads>>
        /\ DocsUnchanged

\* documents.py line 274: the chunks go first.
DocDeleteStore(t) ==
    /\ tasks[t].pc = "del_store"
    /\ store' = delete_document(store, tasks[t].doc_id)
    /\ tasks' = [tasks EXCEPT ![t].pc = "del_registry"]
    /\ UNCHANGED <<registry, uploads>>
    /\ DocsUnchanged

\* documents.py lines 275-282: registry.remove, then the response; a failed
\* statement is not caught (500).
DocDeleteRegistry(t) ==
    /\ tasks[t].pc = "del_registry"
    /\ ~DocRowLocked(t, tasks[t].doc_id)
    /\ \/ tasks' = [tasks EXCEPT ![t].pc = "commit", ![t].status = "200"]
       \/ tasks' = [tasks EXCEPT ![t].pc = "return", ![t].status = "500"]
    /\ UNCHANGED <<store, registry, uploads>>
    /\ DocsUnchanged

\* documents.py lines 201-211 (and 227-244 of reclassify_document), called by
\* current_user (neither handler depends on get_current_user): 404 when the
\* document is not registered.
DocUpdateGet(t) ==
    \E doc_id \in DocIds, request \in UpdateRequests :
      LET cs == request[1]  current_user == request[2] IN
        /\ tasks[t].pc = "idle"
        /\ tasks' = [tasks EXCEPT ![t] =
                        IF registry_get(registry, doc_id) = {}
                        THEN IdleTask
                        ELSE DocTask("upd_registry", "update", current_user, <<>>,
                                     cs, doc_id, "")]
        /\ UNCHANGED <<store, registry, uploads>>
        /\ DocsUnchanged

\* documents.py line 214 (251): registry.update_collections.
DocUpdateRegistry(t) ==
    /\ tasks[t].pc = "upd_registry"
    /\ ~DocRowLocked(t, tasks[t].doc_id)
    /\ \/ tasks' = [tasks EXCEPT ![t].pc = "upd_store"]
       \/ tasks' = [tasks EXCEPT ![t].pc = "return", ![t].status = "500"]
    /\ UNCHANGED <<store, registry, uploads>>
    /\ DocsUnchanged

\* documents.py lines 217-224 (254-261): the chunk metadata, then the response.
DocUpdateStore(t) ==
    /\ tasks[t].pc = "upd_store"
    /\ IF update_document_metadata_raises(backend)
       THEN /\ store' = store
            /\ tasks' = [tasks EXCEPT ![t].pc = "return", ![t].status = "500"]
       ELSE /\ store' = update_document_metadata(store, tasks[t].doc_id,
                                                 collections_csv(tasks[t].collections))
            /\ tasks' = [tasks EXCEPT ![t].pc = "commit", ![t].status = "200"]
    /\ UNCHANGED <<registry, uploads>>
    /\ DocsUnchanged

\* dependencies.py lines 34-35: the handler returned and get_db commits (a
\* handler that raised is rolled back, lines 36-38: nothing is written).  When
\* the commit fails the caller gets 500 if the framework runs this before it
\* sends the response, and has got the handler's 200 if it runs it after.
DocCommit(t) ==
    /\ tasks[t].pc = "commit"
    /\ \/ /\ registry' = committed_registry(registry, tasks[t])
          /\ tasks' = [tasks EXCEPT ![t].pc = "return"]
       \/ /\ registry' = registry
          /\ \E status \in {"200", "500"} :
                tasks' = [tasks EXCEPT ![t].pc = "return", ![t].status = status]
    /\ UNCHANGED <<store, uploads>>
    /\ DocsUnchanged

\* The caller has its answer.
DocReturn(t) ==
    /\ tasks[t].pc = "return"
    /\ tasks' = [tasks EXCEPT ![t] = IdleTask]
    /\ uploads' = IF tasks[t].op = "upload" /\ tasks[t].doc_id # ""
                  THEN [uploads EXCEPT ![tasks[t].doc_id] = tasks[t].status]
                  ELSE uploads
    /\ UNCHANGED <<store, registry>>
    /\ DocsUnchanged

DocsNext ==
    \E t \in Tasks :
        \/ DocUploadCheck(t)
        \/ DocUploadIndex(t)
        \/ DocUploadRegister(t)
        \/ DocDeleteGet(t)
        \/ DocDeleteStore(t)
        \/ DocDeleteRegistry(t)
        \/ DocUpdateGet(t)
        \/ DocUpdateRegistry(t)
        \/ DocUpdateStore(t)
        \/ DocCommit(t)
        \/ DocReturn(t)

SpecDocs == DocsInit /\ [][DocsNext]_vars

(***************************************************************************)
(* app/routers/query.py, lines 70-102, for requests that carry a           *)
(* session_id: the history is loaded, the chain answers, the exchange is   *)
(* stored.  The session is named by the request alone.                     *)
(***************************************************************************)
ChatMaxMessages == {1, 2, 4}

\* The requests are handled one after the other.
ChatTasks == {"t1"}

ChatInit ==
    /\ backend = "chroma"
    /\ store = <<>>
    /\ found = NoSearch
    /\ settings = DefaultSettings
    /\ registry = {}
    /\ resp = NoResponse
    /\ impl \in Impls
    /\ max_messages \in ChatMaxMessages
    /\ session_ttl \in Ttls
    /\ now = 0
    /\ sessions = EmptyMap
    /\ last_access = EmptyMap
    /\ chat_messages = {}
    /\ nex = 1
    /\ hist = NoHistory
    /\ log = [s \in SessionIds |-> <<>>]
    /\ seen = [s \in SessionIds |-> -1]
    /\ fresh = [s \in SessionIds |-> 0]
    /\ ConcIdle

\* dependencies.py lines 36-38: what a request that raised leaves of the
\* session tables; the repository's writes are rolled back by get_db, the
\* in-memory store has no transaction.
rollback(im, saved, current) == IF im = "repo" THEN saved ELSE current

\* query.py lines 70-73: chat_history = get_history(request.session_id) or None.
ChatLoadHistory(t) ==
    \E current_user \in Users, session_id \in SessionIds :
        /\ tasks[t].pc = "idle"
        /\ get_history(session_id)
        /\ tasks' = [tasks EXCEPT ![t] =
                        [pc |-> "answer", current_user |-> current_user,
                         session_id |-> session_id,
                         chat_history |-> hist'.messages,
                         saved |-> [last_access |-> last_access,
                                    chat_messages |-> chat_messages,
                                    stored |-> StoredMessages(session_id)]]]
        /\ UNCHANGED <<lock, auxVars>>

\* query.py lines 75-102: the chain answers and the exchange is stored.
ChatStoreExchange(t) ==
    /\ tasks[t].pc = "answer"
    /\ nex <= MaxExchanges
    /\ add_exchange(tasks[t].session_id)
    /\ authors' = Append(authors, tasks[t].current_user)
    /\ tasks' = [tasks EXCEPT ![t] = IdleTask]
    /\ UNCHANGED <<lock, uploads, disk>>

\* query.py lines 118-120: retrieval or the chat model failed (500), nothing
\* is stored and the transaction of the request is rolled back.
ChatFail(t) ==
    /\ tasks[t].pc = "answer"
    /\ last_access' = rollback(impl, tasks[t].saved.last_access, last_access)
    /\ chat_messages' = rollback(impl, tasks[t].saved.chat_messages, chat_messages)
    /\ tasks' = [tasks EXCEPT ![t] = IdleTask]
    /\ hist' = NoHistory
    /\ UNCHANGED <<impl, max_messages, session_ttl, now, sessions, nex, log,
                   seen, fresh>>
    /\ UNCHANGED <<backend, store, found, apiVars, lock, auxVars>>

ChatNext ==
    \/ MemTick
    \/ \E t \in ChatTasks : ChatLoadHistory(t) \/ ChatStoreExchange(t) \/ ChatFail(t)

SpecChat == ChatInit /\ [][ChatNext]_vars

(***************************************************************************)
(* app/routers/query.py: _smart_truncate, on texts over a small alphabet   *)
(* and with a small max_len in the place of 500.                           *)
(***************************************************************************)
TruncLen == 6
MaxText == 8

\* A word character, a blank, and two of the sentence-ending marks.
Chars == {"a", " ", ".", "!"}

Texts == UNION {[1..n -> Chars] : n \in 0..MaxText}

\* Line 26: the separators tried, in this order.
SentenceSeps == << <<".", " ">>, <<".", "\n">>, <<"!", " ">>, <<"?", " ">> >>

\* str.rfind(sep, 0, end): the highest 0-based index at which sep lies
\* within text[0:end], or -1.
rfind(text, sep, end) ==
    LET hits == {i \in 0..(Min(end, Len(text)) - Len(sep)) :
                    SubSeq(text, i + 1, i + Len(sep)) = sep}
    IN  IF hits = {} THEN -1 ELSE CHOOSE i \in hits : \A j \in hits : j <= i

\* Lines 22-34: how many characters of the text are kept and whether "..."
\* is appended.  `idx > max_len * 0.5` is 2 * idx > max_len.
truncate_cut(text, max_len) ==
    LET good == {n \in 1..Len(SentenceSeps) :
                    2 * rfind(text, SentenceSeps[n], max_len) > max_len}
        first == CHOOSE n \in good : \A m \in good : n <= m
        idx == rfind(text, <<" ">>, max_len)
    IN  IF Len(text) <= max_len THEN [keep |-> Len(text), dots |-> FALSE]
        ELSE IF good # {}
        THEN [keep |-> rfind(text, SentenceSeps[first], max_len) + 1, dots |-> FALSE]
        ELSE IF 2 * idx > max_len THEN [keep |-> idx, dots |-> TRUE]
        ELSE [keep |-> max_len, dots |-> TRUE]

smart_truncate(text, max_len) ==
    LET cut == truncate_cut(text, max_len)
    IN  SubSeq(text, 1, cut.keep) \o (IF cut.dots THEN <<".", ".", ".">> ELSE <<>>)

TruncInit ==
    /\ backend = "chroma"
    /\ store = <<>>
    /\ found \in {[op |-> "chunk", text |-> text, done |-> FALSE] : text \in Texts}
    /\ settings = DefaultSettings
    /\ registry = {}
    /\ resp = NoResponse
    /\ MemIdle
    /\ ConcIdle

\* query.py line 106: content=_smart_truncate(doc.page_content, 500).
TruncSource ==
    /\ found.op = "chunk"
    /\ found' = [op |-> "source", text |-> found.text, done |-> TRUE,
                 cut |-> truncate_cut(found.text, TruncLen),
                 content |-> smart_truncate(found.text, TruncLen)]
    /\ UNCHANGED <<backend, store, apiVars, memVars, concVars, auxVars>>

TruncNext == TruncSource

SpecTrunc == TruncInit /\ [][TruncNext]_vars

(***************************************************************************)
(* similarity_search_with_filter of the two backends on the same indexed   *)
(* content: two documents, d1 indexed before d2.                           *)
(***************************************************************************)
MaxCorpus == 6

Corpora ==
    {Tag(MakeChunks(f1, {"other"}), "d1") \o Tag(MakeChunks(f2, {"other"}), "d2") :
        f1 \in UNION {[1..n -> Contents] : n \in 0..MaxCorpus},
        f2 \in UNION {[1..n -> Contents] : n \in 0..1}}

CorpusInit ==
    /\ backend \in Backends
    /\ store \in {s \in Corpora : Len(s) <= MaxCorpus}
    /\ found = NoSearch
    /\ settings = DefaultSettings
    /\ registry = {}
    /\ resp = NoResponse
    /\ MemIdle
    /\ ConcIdle

\* The same filtered search put to each backend's strategy.
CorpusSearch ==
    \E q \in Queries, k \in 1..MaxK, ids \in (SUBSET DocIds) \ {{}} :
        /\ found.op = "none"
        /\ found' = [op |-> "filtered", q |-> q, k |-> k, doc_ids |-> Some(ids),
                     done |-> TRUE,
                     result |-> similarity_search_with_filter(backend, store, q, k, Some(ids)),
                     faiss |-> faiss_similarity_search_with_filter(store, q, k, Some(ids)),
                     chroma |-> chroma_similarity_search_with_filter(store, q, k, Some(ids))]
        /\ UNCHANGED <<backend, store, apiVars, memVars, concVars, auxVars>>

CorpusNext == CorpusSearch

SpecCorpus == CorpusInit /\ [][CorpusNext]_vars

(***************************************************************************)
(* FAISSStoreManager and its persist directory: every mutation ends with   *)
(* persist(), and a new manager loads what the directory holds.  `disk` is *)
(* the chunk list of the saved index, <<>> when there is no index file; an *)
(* in-memory `store` of <<>> is `_store is None`.                          *)
(***************************************************************************)
\* Lines 82-84: persist() saves only `if self._store is not None`.
persist(s, d) == IF s # <<>> THEN s ELSE d

\* Lines 17-26: initialize() loads the index if the index file exists.
initialize(d) == IF d # <<>> THEN d ELSE <<>>

DiskInit ==
    /\ backend = "faiss"
    /\ store = <<>>
    /\ found = NoSearch
    /\ settings = DefaultSettings
    /\ registry = {}
    /\ resp = NoResponse
    /\ MemIdle
    /\ ConcIdle

DiskUnchanged ==
    UNCHANGED <<backend, found, apiVars, memVars, concVars, uploads, authors>>

\* add_documents, lines 28-38.
DiskAdd ==
    \E d \in DocIds, batch \in Batches :
        /\ Len(store) + Len(batch) <= MaxStoreChunks
        /\ store' = add_documents(store, MakeChunks(batch, {"other"}), d)
        /\ disk' = persist(store', disk)
        /\ DiskUnchanged

\* delete_document, lines 40-54.
DiskDelete ==
    \E d \in DocIds :
        /\ store' = delete_document(store, d)
        /\ disk' = persist(store', disk)
        /\ DiskUnchanged

\* update_document_metadata, lines 86-99.
DiskUpdate ==
    \E d \in DocIds, cs \in UpdateCollections :
        /\ store # <<>>
        /\ store' = update_document_metadata(store, d, collections_csv(cs))
        /\ disk' = persist(store', disk)
        /\ DiskUnchanged

\* The process restarts: a new FAISSStoreManager on the same directory.
DiskRestart ==
    /\ store' = initialize(disk)
    /\ disk' = disk
    /\ DiskUnchanged

DiskNext == DiskAdd \/ DiskDelete \/ DiskUpdate \/ DiskRestart

SpecDisk == DiskInit /\ [][DiskNext]_vars

(***************************************************************************)
(* C1: for both backends and every non-empty doc_ids, every chunk that     *)
(* similarity_search_with_filter returns has its doc_id in doc_ids.        *)
(***************************************************************************)
C1_FilteredResultsInDocIds ==
    (found.done /\ found.doc_ids.given /\ found.doc_ids.ids # {})
        => \A i \in 1..Len(found.result) :
              found.result[i].doc_id \in found.doc_ids.ids

\* A filtered search returned chunks although the nearest chunk of the
\* index belongs to a document outside doc_ids.
C1_Witness ==
    /\ found.done /\ found.doc_ids.given /\ found.doc_ids.ids # {}
    /\ Len(found.result) > 0
    /\ store # <<>>
    /\ IndexSearch(store, found.q, 1)[1].doc_id \notin found.doc_ids.ids

(***************************************************************************)
(* C2: similarity_search_with_filter returns nothing whenever the supplied *)
(* doc_ids set is empty or matches no chunk of the store.                  *)
(***************************************************************************)
C2_EmptyOrUnmatchedFilterGivesNothing ==
    (/\ found.done /\ found.doc_ids.given
     /\ \A i \in 1..Len(store) : store[i].doc_id \notin found.doc_ids.ids)
        => Len(found.result) = 0

\* The doc_ids of the chunks a response carries: its sources and the
\* context the chain retrieved for the prompt.
ResponseDocIds ==
    {resp.sources[i].doc_id : i \in 1..Len(resp.sources)}
        \cup {resp.context[i].doc_id : i \in 1..Len(resp.context)}

(***************************************************************************)
(* C3: with user isolation enabled, every chunk retrieved for the context  *)
(* and every source of a response to user U belongs to a document that U   *)
(* owns, whatever the filters and the registry contents.                   *)
(***************************************************************************)
C3_OnlyOwnDocuments ==
    (Isolated(settings) /\ resp.status = "200")
        => ResponseDocIds \subseteq IdsOf(list_all(registry, resp.request.user))

(***************************************************************************)
(* C4: for every query that names a collection, every source and every     *)
(* retrieved chunk belongs to a document registered in that collection,    *)
(* also when the collection contains no documents.                         *)
(***************************************************************************)
C4_OnlyCollectionDocuments ==
    (resp.status = "200" /\ resp.request.collection # "")
        => ResponseDocIds \subseteq
              IdsOf(list_by_collection(registry, resp.request.collection, ""))

(***************************************************************************)
(* Session memory claims, checked under SpecMem.                           *)
(***************************************************************************)
\* The last k elements of a sequence.
LastN(s, k) == SubSeq(s, Len(s) - k + 1, Len(s))

\* C5: after n add_exchange calls on one session with no expiry in between,
\* get_history returns exactly min(2n, max_messages) messages, the most
\* recently appended ones in their original order, in both implementations.
C5_HistoryIsMostRecent ==
    (hist.done /\ fresh[hist.sid] = 0 /\ hist.gap <= session_ttl) =>
        hist.messages = LastN(log[hist.sid], Min(Len(log[hist.sid]), max_messages))

\* C6: every session's stored messages have even length, at most
\* max_messages, so that trimming only ever removes whole pairs.
C6_EvenAndBounded ==
    \A sid \in DOMAIN last_access :
        /\ StoredCount(sid) % 2 = 0
        /\ StoredCount(sid) <= max_messages

\* The messages of a sequence, as a set.
Range(s) == {s[i] : i \in 1..Len(s)}

\* C7: a get_history more than session_ttl after the session's last access
\* (read or write) returns nothing; one within session_ttl of the last access
\* returns exactly the messages stored for the session; the last access is
\* the latest get_history or add_exchange on the existing session.
C7_TtlExpiry ==
    hist.done =>
        /\ hist.gap > session_ttl => hist.messages = <<>>
        /\ hist.gap \in 0..session_ttl =>
              /\ Range(hist.messages) = hist.before
              /\ Len(hist.messages) = Cardinality(hist.before)

\* A read within the TTL, after time has passed, that returns stored messages.
C7_Witness ==
    /\ hist.done
    /\ hist.gap \in 1..session_ttl
    /\ hist.messages # <<>>
    /\ now > session_ttl

\* C8: no get_history returns a message that was stored before the session
\* last sat idle for longer than session_ttl: an add_exchange after such an
\* idle period starts a fresh history.
C8_NoStaleMessages ==
    hist.done =>
        \A i \in 1..Len(hist.messages) : hist.messages[i].content >= fresh[hist.sid]

(***************************************************************************)
(* Concurrency claims.                                                     *)
(***************************************************************************)
\* Task t waits for the lock that task u holds.
WaitsFor(t, u) == tasks[t].pc = "wait" /\ lock = u /\ u # t

\* C10, as stated: a call on one session is never made to wait because
\* another task is inside a call on a different session.
C10_DifferentSessionsNeverWait ==
    \A t, u \in Tasks : WaitsFor(t, u) => tasks[u].sid = tasks[t].sid

\* C10, as the code has it: the manager has one lock for all sessions, so a
\* call waits exactly while another task is inside a call, on whichever
\* session; the lock is held only by a task inside a call, so no call waits
\* when no other call is in progress.
C10_WaitOnlyWhileAnotherIsInside ==
    /\ \A t, u \in Tasks : WaitsFor(t, u) => tasks[u].pc = "cs"
    /\ lock # "free" => lock \in Tasks /\ tasks[lock].pc = "cs"

\* A call on one session waiting while a call on another session is inside.
C10_Witness ==
    \E t, u \in Tasks :
        /\ WaitsFor(t, u)
        /\ tasks[u].pc = "cs"
        /\ tasks[u].sid # tasks[t].sid

\* The exchanges whose add_exchange was called on a session.
CalledExchanges(sid) == {log[sid][i].content : i \in 1..Len(log[sid])}

\* The exchanges with a committed chat_messages row of a session.
KeptExchanges(sid) == {r.content : r \in RowsOf(chat_messages, sid)}

\* C9: concurrent add_exchange calls on one session are serialized: once
\* all calls have finished, the history is that of some serial order of
\* the calls, so no exchange is lost: with k calls and an even max_messages
\* it holds max_messages / 2 exchanges, or all k if they are fewer, each with
\* its question and its answer.
C9_SameSessionSerialized ==
    (\A t \in Tasks : tasks[t].pc = "idle") =>
        \A sid \in SessionIds :
            /\ KeptExchanges(sid) \subseteq CalledExchanges(sid)
            /\ Cardinality(KeptExchanges(sid)) =
                  Min(Cardinality(CalledExchanges(sid)), max_messages \div 2)
            /\ Cardinality(RowsOf(chat_messages, sid)) =
                  2 * Cardinality(KeptExchanges(sid))

(***************************************************************************)
(* Chunk store frame claims, checked under SpecStore.                      *)
(***************************************************************************)
\* The chunks of a store tagged with doc_id, and the others, in index order.
ChunksOf(s, doc_id) == LET own(d) == d.doc_id = doc_id IN SelectSeq(s, own)
ChunksNotOf(s, doc_id) == LET other(d) == d.doc_id # doc_id IN SelectSeq(s, other)

\* C11: after add_documents(chunks, doc_id) of n chunks under a doc_id the
\* store did not hold, get_all_documents has exactly n chunks tagged with
\* doc_id and the chunks of every other doc_id are as they were.
C11_AddExactlyN ==
    (found.op = "add" /\ ChunksOf(found.before, found.doc_id) = <<>>) =>
        /\ Len(ChunksOf(get_all_documents(backend, store), found.doc_id)) = found.n
        /\ ChunksNotOf(get_all_documents(backend, store), found.doc_id) = found.before

\* A batch was added to a store that already held another document.
C11_Witness ==
    /\ found.op = "add"
    /\ ChunksOf(found.before, found.doc_id) = <<>>
    /\ found.before # <<>>
    /\ found.n > 1

\* C12: delete_document(doc_id) removes every chunk tagged with doc_id and
\* leaves the others as they were; with no such chunk (also on an empty
\* store) it changes nothing, and deleting again changes nothing.
C12_DeleteExactly ==
    found.op = "delete" =>
        /\ ChunksOf(store, found.doc_id) = <<>>
        /\ store = ChunksNotOf(found.before, found.doc_id)
        /\ ChunksOf(found.before, found.doc_id) = <<>> => store = found.before
        /\ delete_document(store, found.doc_id) = store

\* A delete removed the chunks of one document and kept those of another.
C12_Witness ==
    /\ found.op = "delete"
    /\ ChunksOf(found.before, found.doc_id) # <<>>
    /\ store # <<>>

\* No request is inside a documents handler.
Quiescent == \A t \in Tasks : tasks[t].pc = "idle"

(***************************************************************************)
(* C13: in every state reached through uploads, deletes and collection     *)
(* updates, runs in which a step of an operation fails included, and no    *)
(* operation under way, each registry document's chunk_count is the number *)
(* of chunks of the chunk store tagged with its doc_id.                    *)
(***************************************************************************)
C13_ChunkCountMatchesStore ==
    Quiescent =>
        \A d \in registry : d.chunk_count = Len(ChunksOf(store, d.doc_id))

(***************************************************************************)
(* C14: an upload that has left chunks in the chunk store for a doc_id     *)
(* without a committed registry record has reported an error to its        *)
(* caller: no upload that reported success leaves orphaned chunks.         *)
(***************************************************************************)
C14_OrphansAreReported ==
    \A d \in DocIds :
        (/\ uploads[d] \in {"200", "500"}
         /\ ChunksOf(store, d) # <<>>
         /\ registry_get(registry, d) = {}) => uploads[d] = "500"

(***************************************************************************)
(* C15: duplicate content is rejected per user: in every state, also after *)
(* concurrent uploads of the same bytes by the same user, no two registry  *)
(* documents of one user have the same content hash; and an upload         *)
(* rejected as a duplicate adds nothing to the registry or chunk store.    *)
(***************************************************************************)
C15_NoDuplicateHashPerUser ==
    /\ [](\A d, e \in registry :
            (d.user_id = e.user_id /\ d.file_hash = e.file_hash) => d = e)
    /\ [][\A t \in Tasks :
            (tasks[t].pc = "idle" /\ tasks'[t].pc = "return" /\ tasks'[t].status = "409")
                => (registry' = registry /\ store' = store)]_vars

\* The step in which the transaction of a collection update is committed.
UpdateCompletes(t) ==
    /\ tasks[t].pc = "commit" /\ tasks[t].op = "update"
    /\ tasks'[t].pc = "return" /\ tasks'[t].status = "200"
    /\ registry' = committed_registry(registry, tasks[t])

(***************************************************************************)
(* C16: after a collection update on a document completes successfully on  *)
(* either backend, the registry's collection set of that doc_id and the    *)
(* collections_csv of each of its chunks name the same labels, the         *)
(* metadata of other documents' chunks is unchanged and the store holds as *)
(* many chunks as before.                                                  *)
(***************************************************************************)
C16_UpdateKeepsRegistryAndChunksInStep ==
    [][\A t \in Tasks :
        /\ UpdateCompletes(t) =>
              \A d \in registry_get(registry', tasks[t].doc_id) :
                  \A i \in 1..Len(store') :
                      store'[i].doc_id = d.doc_id =>
                          store'[i].collections_csv = d.collections
        /\ (tasks[t].pc = "upd_store" /\ tasks'[t].pc = "commit") =>
              /\ ChunksNotOf(store', tasks[t].doc_id) = ChunksNotOf(store, tasks[t].doc_id)
              /\ Len(store') = Len(store)]_vars

(***************************************************************************)
(* C17: a query with top_k = k and no filters is answered with at most k   *)
(* sources, and each source's doc_id is that of a document with chunks in  *)
(* the chunk store.                                                        *)
(***************************************************************************)
C17_UnfilteredSourcesBounded ==
    (/\ resp.status = "200"
     /\ resp.request.req_doc_ids = None
     /\ resp.request.collection = "") =>
        /\ Len(resp.sources) <= resp.request.top_k
        /\ \A i \in 1..Len(resp.sources) :
              \E j \in 1..Len(store) : store[j].doc_id = resp.sources[i].doc_id

\* The scenario of test_query_no_filter with more chunks than top_k.
C17_Witness ==
    /\ resp.status = "200"
    /\ resp.request.req_doc_ids = None
    /\ resp.request.collection = ""
    /\ Len(store) > resp.request.top_k
    /\ Len(resp.sources) = resp.request.top_k

(***************************************************************************)
(* C19: chat sessions are isolated between users: the chat history a query *)
(* of user B gets for its prompt holds no message stored by a query of a   *)
(* different user A, and no session holds exchanges of two users.          *)
(***************************************************************************)
C19_SessionsIsolatedBetweenUsers ==
    /\ \A t \in Tasks : tasks[t].pc = "answer" =>
          \A i \in 1..Len(tasks[t].chat_history) :
              authors[tasks[t].chat_history[i].content] = tasks[t].current_user
    /\ \A sid \in SessionIds : \A m1, m2 \in StoredMessages(sid) :
          authors[m1.content] = authors[m2.content]

\* The message sequences get_history(sid) can return in the current state.
HistoryOf(sid) ==
    LET expired == Expired(last_access, now, session_ttl)
        present == sid \in DOMAIN last_access \ expired
        rows == repo_cleanup_rows(chat_messages, last_access, now, session_ttl)
    IN  IF ~present THEN {<<>>}
        ELSE IF impl = "memory" THEN {sessions[sid]}
        ELSE {ToMessages(order) : order \in OrderByCreatedAt(RowsOf(rows, sid))}

(***************************************************************************)
(* C20: sessions are independent: an add_exchange on session s1 leaves the *)
(* message sequence get_history returns for every other session s2         *)
(* unchanged, whatever exchanges came before on whichever sessions.        *)
(***************************************************************************)
C20_SessionsIndependent ==
    [][\A s1, s2 \in SessionIds :
        (s1 # s2 /\ log'[s1] # log[s1]) => HistoryOf(s2)' = HistoryOf(s2)]_vars

\* An exchange has just been added to one session while another, live
\* session holds messages.
C20_Witness ==
    \E s1, s2 \in SessionIds :
        /\ s1 # s2
        /\ HumanMessage(nex - 1) \in StoredMessages(s1)
        /\ hist = NoHistory
        /\ HistoryOf(s2) # {<<>>}

\* The text is cut between two word characters.
MidWord(text, keep) ==
    /\ 0 < keep /\ keep < Len(text)
    /\ text[keep] = "a" /\ text[keep + 1] = "a"

(***************************************************************************)
(* C21: the content of a source has at most 500 characters (TruncLen in    *)
(* the model); a text that was shortened ends at a sentence or word        *)
(* boundary of the original text, never inside a word; a text of at most   *)
(* 500 characters is returned unchanged.                                   *)
(***************************************************************************)
C21_TruncatedAtBoundary ==
    found.op = "source" =>
        /\ Len(found.content) <= TruncLen
        /\ Len(found.text) > TruncLen => ~MidWord(found.text, found.cut.keep)
        /\ Len(found.text) <= TruncLen => found.content = found.text

EmptyCorpus ==
    \/ store = <<>>
    \/ /\ settings.hybrid_search_enabled
       /\ hybrid_corpus(backend, store, resp.request.doc_ids) = <<>>

(***************************************************************************)
(* C23: retrieval over an empty corpus gives zero chunks and no error in   *)
(* every retriever mode and on both backends: the query is not refused and *)
(* goes on to the chat model with an empty context.                        *)
(***************************************************************************)
C23_EmptyCorpusNoError ==
    (resp.status # "idle" /\ EmptyCorpus) =>
        /\ resp.status # "400"
        /\ resp.status = "200" => resp.context = <<>>

(***************************************************************************)
(* C24: the two filtered-search strategies give the same output: for every *)
(* store content, query, k and non-empty doc_ids, over-fetch and           *)
(* post-filter (FAISS) returns the same ordered chunk list as predicate    *)
(* push-down (Chroma): the k most similar chunks among those of doc_ids.   *)
(***************************************************************************)
C24_StrategiesEquivalent ==
    found.op = "filtered" =>
        /\ found.faiss = found.chroma
        /\ found.chroma = IndexSearch(FilterByDocs(store, found.doc_ids.ids), found.q, found.k)

(***************************************************************************)
(* C25: get_history returns the messages in append order, strictly         *)
(* alternating human/assistant and starting with a human message, each     *)
(* question immediately followed by its own answer, for both session       *)
(* stores.                                                                 *)
(***************************************************************************)
C25_HistoryAlternates ==
    hist.done =>
        LET m == hist.messages IN
        /\ Len(m) % 2 = 0
        /\ \A i \in 1..Len(m) :
              /\ m[i].role = IF i % 2 = 1 THEN "human" ELSE "ai"
              /\ (i % 2 = 1 /\ i < Len(m)) => m[i + 1].content = m[i].content
              /\ i < Len(m) => m[i].content <= m[i + 1].content

(***************************************************************************)
(* C26: when a query supplies both doc_ids and a collection, every         *)
(* retrieved chunk belongs to a document that is in the supplied doc_ids   *)
(* and in the named collection, with user isolation enabled or disabled.   *)
(***************************************************************************)
C26_DocIdsAndCollectionCombine ==
    (/\ resp.status = "200"
     /\ Truthy(resp.request.req_doc_ids)
     /\ resp.request.collection # "") =>
        \A d \in ResponseDocIds :
            /\ d \in resp.request.req_doc_ids.ids
            /\ d \in IdsOf(list_by_collection(registry, resp.request.collection, ""))

(***************************************************************************)
(* C27: for the FAISS backend, after any sequence of add_documents,        *)
(* delete_document and update_document_metadata calls, a new manager       *)
(* initialized from the same directory returns from get_all_documents the  *)
(* same chunk set as the running one; deleting the last document leaves    *)
(* no chunks to be reloaded.                                               *)
(***************************************************************************)
C27_DiskTracksMemory ==
    Range(get_all_documents(backend, initialize(disk)))
        = Range(get_all_documents(backend, store))

(***************************************************************************)
(* C28: the sources listed in a query response are the chunks that were    *)
(* put into the model's context, in the same order, for every              *)
(* configuration (hybrid on or off, re-ranking on or off, with or without  *)
(* doc_ids).                                                               *)
(***************************************************************************)
C28_SourcesAreTheContext ==
    resp.status = "200" => resp.sources = resp.context

(***************************************************************************)
(* C29: a query whose retrieval or chat-model call fails leaves the stored *)
(* message sequence of its session as it was before the query; the         *)
(* history used in the prompt was read before the current question was     *)
(* appended; and exchanges are stored as complete question/answer pairs.   *)
(***************************************************************************)
C29_FailedQueryLeavesSession ==
    /\ [][\A t \in ChatTasks, sid \in SessionIds :
            (impl = "repo" /\ tasks[t].pc = "answer" /\ tasks'[t].pc = "idle"
                /\ nex' = nex /\ tasks[t].session_id = sid) =>
                    /\ StoredMessages(sid)' = tasks[t].saved.stored
                    /\ last_access' = tasks[t].saved.last_access]_vars
    /\ [](\A t \in ChatTasks : tasks[t].pc = "answer" =>
            \A i \in 1..Len(tasks[t].chat_history) :
                tasks[t].chat_history[i].content < nex)
    /\ [](\A sid \in SessionIds, n \in 1..MaxExchanges :
            HumanMessage(n) \in StoredMessages(sid)
                <=> AIMessage(n) \in StoredMessages(sid))

\* C30: with user isolation enabled, delete, collection update and reclassify
\* act only on documents of the calling user: a request by another user does
\* not get past the lookup (it is answered not found), and no step of such a
\* request changes the owner's registry record or chunks.
C30_MutationsOnlyByOwner ==
    /\ [][\A t \in Tasks :
            (Isolated(settings) /\ tasks[t].pc = "idle"
                /\ tasks'[t].pc \in {"del_store", "upd_registry"}) =>
                    \E d \in registry_get(registry, tasks'[t].doc_id) :
                        d.user_id = tasks'[t].user]_vars
    /\ [][\A t \in Tasks :
            (Isolated(settings) /\ tasks[t].pc \in {"del_store", "upd_store", "commit"}
                /\ tasks[t].op \in {"delete", "update"}
                /\ tasks'[t] # tasks[t]
                /\ \E d \in registry_get(registry, tasks[t].doc_id) :
                        d.user_id # tasks[t].user) =>
                    store' = store /\ registry' = registry]_vars

====
